---- MODULE Spec2Model ----
(***************************************************************************)
(* Model of interfaces/farcaster_post.py: the posting loop                 *)
(* FarcasterAgent._run, the generation coroutine generate_cast, the        *)
(* publishing client FarcasterAPI.post_cast and the history store          *)
(* CastHistoryManager.                                                     *)
(*                                                                         *)
(* One action per stretch of code between two calls to an external         *)
(* collaborator (language model, image backend, HTTP, notification, file   *)
(* system); the outcome of each such call is an input chosen with \E.      *)
(***************************************************************************)
EXTENDS Integers, Sequences, FiniteSets, TLC

(* ------------------------------ bounds -------------------------------- *)

\* a new iteration of the loop is explored only while add_cast has run
\* fewer times than this
MaxHistory == 1

\* longest completion text the language model returns
MaxLen == 2

\* a client of CastHistoryManager calls add_cast at most this many times
MaxStored == 2

\* largest argument a client gives to get_recent_casts
MaxN == 3

\* longest list of persona traits of a configuration
MaxTraits == 3

(* ------------------------- program constants -------------------------- *)

\* wait_time = 10 (line 322) and asyncio.sleep(10) (line 330)
FALLBACK == 10

\* random.uniform(3600, 7200)
IntervalLo == 3600

IntervalHi == 7200

\* Python's None where the other values are strings (image URL, cast hash)
NoneStr == "None"

\* Python's None where the other values are texts (sequences of characters)
None == <<"None">>

\* the character removed by cast.replace('"', '')
Quote == "\""

Alphabet == {"a", Quote}

\* every text of at most n characters
Texts(n) == UNION {[1..k -> Alphabet] : k \in 0..n}

\* a test for None in place of the truthiness test: '' passes
Truthy_NotNone(t) == t # None

\* Python truthiness of an optional text: None and '' are falsy
Truthy(t) == t # None /\ t # <<>>

\* the truthiness test left out: every value passes
TruthyStr_Always(s) == TRUE

\* Python truthiness of an optional string
TruthyStr(s) == s # NoneStr /\ s # ""

(* --------------------------- configuration ---------------------------- *)

\* the sections the accessors of PromptConfig read (lines 117-139), one
\* key per accessor
ConfigKeys ==
    {"system", "basic_settings", "interaction_styles", "basic_prompt",
     "tweet_instruction", "context_twitter", "tweet_ideas", "rules"}

\* PromptConfig.config: the parsed document
ValidConfig ==
    [system             |-> "sys",
     basic_settings     |-> <<"b1", "b2">>,
     interaction_styles |-> <<"s1", "s2">>,
     basic_prompt       |-> "basic_prompt",
     tweet_instruction  |-> "tweet_instruction",
     context_twitter    |-> "context_twitter",
     tweet_ideas        |-> <<"idea1">>,
     rules              |-> "rules"]

\* a configuration whose style list is too short for random.sample(_, 2)
ShortConfig == [ValidConfig EXCEPT !.interaction_styles = <<"s1">>]

Configs == {ValidConfig, ShortConfig}

\* the document d without the section key
Without(d, key) == [k \in (DOMAIN d) \ {key} |-> d[k]]

\* yaml.safe_load gives None for an empty document: no section can be read
NoConfig == <<>>

\* the configuration file: absent, not YAML, or YAML of some document
MissingConfigFile == [state |-> "missing", document |-> NoConfig]

UnparsableConfigFile == [state |-> "unparsable", document |-> NoConfig]

YamlFile(d) == [state |-> "yaml", document |-> d]

\* PromptConfig._load_config (lines 109-115): open and yaml.safe_load; any
\* exception is logged and raised again, and nothing checks the sections
\* of the document that was read
load_config(f) ==
    IF f.state = "yaml"
    THEN [raised |-> FALSE, config |-> f.document]
    ELSE [raised |-> TRUE, config |-> NoConfig]

\* two draws with replacement (random.choices(population, k=2)): the same
\* position can be drawn twice
sample2_WithReplacement(population) ==
    {<<population[i], population[j]>> :
        <<i, j>> \in (DOMAIN population) \X (DOMAIN population)}

\* random.sample(population, 2): two elements at distinct positions, in
\* any order; the empty set stands for the ValueError of a short population
sample2(population) ==
    {<<population[i], population[j]>> :
        <<i, j>> \in {p \in (DOMAIN population) \X (DOMAIN population) : p[1] # p[2]}}

\* random.choice(seq)
choice(population) == {population[i] : i \in DOMAIN population}

(* ------------------------------ state --------------------------------- *)

VARIABLES
    config,          \* PromptConfig.config, loaded once
    DRYRUN,          \* module flag DRYRUN
    interfaces,      \* names registered in self.interfaces
    config_file,     \* content of config/prompts.yaml
    pc,              \* position of the program: startup, the _run coroutine
    message,         \* the prompt of the handle_message call that is pending
    clock,           \* readings of datetime.now() taken by add_cast so far
    history,         \* CastHistoryManager.history
    file,            \* content of cast_history.json
    had_quotes,      \* whether the final completion held quote characters
    cast,            \* local cast of generate_cast / _run
    image_url,       \* local image_url
    image_prompt,    \* local image_prompt of generate_cast
    cast_data,       \* the working record of the cycle
    cast_hash,       \* local cast_hash of _run
    last_cast_hash,  \* self.last_cast_hash
    wait_time,       \* argument of the pending asyncio.sleep
    image_calls,     \* calls of the image backend made in this cycle
    posts,           \* calls of post_cast made in this cycle
    notes,           \* calls of send_to_interface completed in this cycle
    appended,        \* calls of add_cast that appended in this cycle
    failures,        \* what failed in this cycle
    arg_n,           \* argument of the last get_recent_casts call of a client
    result,          \* what that call returned
    added,           \* the entries add_cast built since the history was empty
    persisted        \* the entries of the last complete file, once there is one

vars == <<config, DRYRUN, interfaces, config_file, pc, message, clock, history,
          file, had_quotes, cast,
          image_url, image_prompt, cast_data, cast_hash, last_cast_hash,
          wait_time, image_calls, posts, notes, appended, failures,
          arg_n, result, added, persisted>>

env == <<config, DRYRUN, interfaces, config_file>>

\* the variables that only the clients of CastHistoryManager other than
\* _run use
lib == <<arg_n, result, added, persisted>>

(* --------------------------- history store ---------------------------- *)

\* cast_history.json does not exist
MissingFile == [state |-> "missing", entries |-> <<>>]

\* the file holds text that is not JSON (an empty file, a file cut short)
CorruptFile == [state |-> "corrupt", entries |-> <<>>]

\* the file holds bytes that are not UTF-8 (a file cut inside a character
\* that ensure_ascii=False wrote as several bytes)
UndecodableFile == [state |-> "undecodable", entries |-> <<>>]

\* the order in which the members of an object are written
KeyOrder == <<"timestamp", "cast", "tag", "note">>

\* json.dumps of a dict: the members of the object, key and value, in order
json_dumps(d) ==
    LET ks == SelectSeq(KeyOrder, LAMBDA k : k \in DOMAIN d)
    IN  [i \in DOMAIN ks |-> <<ks[i], d[ks[i]]>>]

\* json.loads of an object: the dict of its members, the last member of a
\* key giving its value
json_loads(m) ==
    [k \in {m[i][1] : i \in DOMAIN m} |->
        m[CHOOSE i \in DOMAIN m :
            m[i][1] = k /\ \A j \in DOMAIN m : m[j][1] = k => j <= i][2]]

\* only the newest entry is written (an append to the file in place of
\* the rewrite of the whole array)
JsonFile_LastOnly(h) ==
    [state |-> "json",
     entries |-> IF h = <<>> THEN <<>> ELSE <<json_dumps(h[Len(h)])>>]

\* json.dump(self.history, f): the file holds the array of the objects
JsonFile(h) == [state |-> "json", entries |-> [i \in DOMAIN h |-> json_dumps(h[i])]]

\* CastHistoryManager.load_history (lines 146-154): [] for a missing file
\* and for a JSONDecodeError; any other exception of open or json.load
\* (a UnicodeDecodeError) leaves it; what json.load returns is returned
\* as it is
load_history(f) ==
    IF f.state = "missing" THEN [raised |-> FALSE, history |-> <<>>]
    ELSE IF f.state = "corrupt" THEN [raised |-> FALSE, history |-> <<>>]
    ELSE IF f.state = "undecodable" THEN [raised |-> TRUE, history |-> <<>>]
    ELSE [raised |-> FALSE,
          history |-> [i \in DOMAIN f.entries |-> json_loads(f.entries[i])]]

\* cast_data = {'metadata': {}}: keys not yet set are None
EmptyMetadata ==
    [basic_options     |-> <<>>,
     style_options     |-> <<>>,
     ideas_instruction |-> NoneStr,
     ideas             |-> None,
     image_prompt      |-> NoneStr,
     image_url         |-> NoneStr,
     cast_hash         |-> NoneStr]

EmptyCastData == [cast |-> None, metadata |-> EmptyMetadata]

\* the entry add_cast builds: {'timestamp': now, 'cast': cast}
NewEntry(now, cd) == [timestamp |-> now, cast |-> cd]

\* metadata=None, the default of add_cast
NoMetadata == <<>>

\* dict.update: the keys of md are set in d
update(d, md) ==
    [k \in (DOMAIN d) \cup (DOMAIN md) |-> IF k \in DOMAIN md THEN md[k] ELSE d[k]]

\* add_cast, lines 157-164: the entry, updated with the metadata when
\* there is one, and copied by the json.loads(json.dumps(entry)) round trip
\* (no aliasing with the working record afterwards)
add_cast(now, cd, md) ==
    json_loads(json_dumps(IF DOMAIN md # {}
                          THEN update(NewEntry(now, cd), md)
                          ELSE NewEntry(now, cd)))

\* the entry is put in front of the list
append_InFront(h, e) == <<e>> \o h

\* self.history.append(entry) (line 165)
append(h, e) == Append(h, e)

\* an entry of an earlier run of the program
OldEntry ==
    add_cast(0, [cast |-> <<"a">>,
                 metadata |-> [EmptyMetadata EXCEPT
                     !.basic_options = <<"b1", "b2">>,
                     !.style_options = <<"s1", "s2">>,
                     !.ideas_instruction = "idea1",
                     !.ideas = <<"i">>]], NoMetadata)

\* an object of a JSON array that is no history entry (it has no 'cast')
OtherObject == [note |-> "x"]

\* the default of the parameter n of get_recent_casts
DefaultN == 6

\* the Python slice h[-n:]: for n > 0 the last n elements (all of them
\* when there are fewer), for n = 0 the slice h[0:], which is the whole
\* list, for n < 0 the list without its first -n elements
LastSlice(h, n) ==
    LET start == IF n > 0
                 THEN (IF Len(h) > n THEN Len(h) - n ELSE 0)
                 ELSE (IF -n < Len(h) THEN -n ELSE Len(h))
    IN  SubSeq(h, start + 1, Len(h))

\* CastHistoryManager.get_recent_casts (lines 172-173): the texts
\* entry['cast']['cast'] of the slice; an element without 'cast' raises
get_recent_casts(h, n) ==
    LET sl == LastSlice(h, n)
    IN  IF \E i \in DOMAIN sl : "cast" \notin DOMAIN sl[i]
        THEN [raised |-> TRUE, casts |-> <<>>]
        ELSE [raised |-> FALSE, casts |-> [i \in DOMAIN sl |-> sl[i].cast.cast]]

\* outcomes of save_history: the file is rewritten, or open() raises and
\* the file is untouched, or the write breaks off after the truncation
SaveOutcomes(h) ==
    {[ok |-> TRUE,  file |-> JsonFile(h)],
     [ok |-> FALSE, file |-> file],
     [ok |-> FALSE, file |-> CorruptFile]}

(* -------------------------- publishing client ------------------------- *)

\* identifiers the network gives to casts
Hashes == {"h1"}

\* what requests.post can do: raise, answer a non-200 status, answer 200
\* without a hash, answer 200 with the hash of the new cast
Responses ==
    {[kind |-> "raise",  status |-> 0,   hash |-> NoneStr],
     [kind |-> "answer", status |-> 500, hash |-> NoneStr],
     [kind |-> "answer", status |-> 200, hash |-> NoneStr]} \cup
    {[kind |-> "answer", status |-> 200, hash |-> h] : h \in Hashes}

\* FarcasterAPI.post_cast: the value returned for a response
post_cast(resp) ==
    IF resp.kind = "raise" THEN NoneStr
    ELSE IF resp.status = 200 THEN resp.hash
    ELSE NoneStr

(* --------------------------- generate_cast ---------------------------- *)

\* a stretch of a prompt: the template or text it comes from, the strings
\* and the texts formatted into it, and the word limit when it has one
Piece(part, args, texts, num_words) ==
    [part |-> part, args |-> args, texts |-> texts, num_words |-> num_words]

Has(key) == key \in DOMAIN config

\* fill_basic_prompt (lines 200-206)
fill_basic_prompt(bo, so) ==
    <<Piece("basic_prompt", <<config.basic_prompt, bo[1], bo[2], so[1], so[2]>>, <<>>, 0)>>

\* self.prompt_config.get_rules() as a stretch of the prompt
get_rules == <<Piece("rules", <<config.rules>>, <<>>, 0)>>

\* format_context (lines 222-225): '' when there are no casts
format_context(casts) ==
    IF casts = <<>> THEN <<>>
    ELSE <<Piece("context", <<config.context_twitter>>, casts, 0)>>

CAST_WORD_LIMITS == {15, 20, 30, 35}

\* format_cast_instruction (lines 208-220): the ideas are formatted in
\* only when they are truthy
format_cast_instruction(bo, so, ideas, num_words) ==
    <<Piece("instruction",
            <<config.tweet_instruction, bo[1], bo[2], so[1], so[2], config.rules>>,
            IF Truthy(ideas) THEN <<ideas>> ELSE <<>>,
            num_words)>>

\* the idea seed as a prompt
IdeaPrompt(idea) == <<Piece("idea", <<idea>>, <<>>, 0)>>

\* past_casts = self.history_manager.get_recent_casts() (line 233); the
\* history does not change while generate_cast runs
past_casts == get_recent_casts(history, DefaultN)

\* the argument of the first handle_message (line 252): the idea seed
\* alone; the user_prompt of lines 247-248 is built and not used
FirstPrompt(bo, so, idea) == IdeaPrompt(idea)

\* the argument of the second handle_message (lines 256-260)
SecondPrompt(bo, so, ideas, num_words) ==
    fill_basic_prompt(bo, so) \o get_rules \o format_context(past_casts.casts)
        \o format_cast_instruction(bo, so, ideas, num_words)

\* what makes lines 233-248 raise: an element of the history that is no
\* entry, a section the configuration lacks (KeyError), a list too short
\* for random.sample or empty for random.choice; "" when nothing does
BeforeIdeasRaises ==
    IF past_casts.raised THEN "recent"
    ELSE IF ~Has("basic_settings") \/ ~Has("interaction_styles") THEN "config"
    ELSE IF sample2(config.basic_settings) = {}
            \/ sample2(config.interaction_styles) = {} THEN "sample"
    ELSE IF ~Has("basic_prompt") \/ ~Has("tweet_ideas") THEN "config"
    ELSE IF choice(config.tweet_ideas) = {} THEN "sample"
    ELSE IF ~Has("rules") THEN "config"
    ELSE IF past_casts.casts # <<>> /\ ~Has("context_twitter") THEN "config"
    ELSE ""

\* whether a text is free of the quote character
HasNoQuote(t) == \A j \in DOMAIN t : t[j] # Quote

\* the cleaning left out: the completion is used as returned
replace_quotes_Identity(t) == t

\* cast.replace('"', '')
replace_quotes(t) == SelectSeq(t, LAMBDA ch : ch # Quote)

\* outcomes of an awaited handle_message: it raises, or returns one of
\* the given values
LLMOutcomes(values) ==
    {[raised |-> TRUE, text |-> None]} \cup
    {[raised |-> FALSE, text |-> t] : t \in values}

\* what the ideas completion returns
IdeasTexts == {<<"i">>}

\* what the final completion returns: None or a text, possibly empty
FinalTexts == Texts(MaxLen) \cup {None}

\* random_interval(): the lowest and the highest value of the uniform draw
random_interval == {IntervalLo, IntervalHi}

\* the test of the dry-run flag inverted (if DRYRUN instead of if not DRYRUN)
AfterGenerate_DryRunInverted(c) ==
    IF Truthy(c)
    THEN IF DRYRUN THEN "post" ELSE "add_cast"
    ELSE "failed"

\* the test of the dry-run flag left out: every text is published
AfterGenerate_IgnoreDryRun(c) ==
    IF Truthy(c) THEN "post" ELSE "failed"

\* the test of the returned text left out (no if cast)
AfterGenerate_NoCastCheck(c) ==
    IF ~DRYRUN THEN "post" ELSE "add_cast"

\* _run, lines 297-322: where the loop goes once generate_cast returned c
AfterGenerate(c) ==
    IF Truthy(c)
    THEN IF ~DRYRUN THEN "post" ELSE "add_cast"
    ELSE "failed"

\* generate_cast returns (c, url, cd) and _run branches on the text
\* (lines 295-297, 320-322); fs is what has failed in the cycle so far
Return(c, url, cd, fs) ==
    /\ cast' = c
    /\ image_url' = url
    /\ cast_data' = cd
    /\ IF AfterGenerate(c) = "failed"
       THEN /\ wait_time' = FALLBACK
            /\ pc' = "sleep"
            /\ failures' = fs \cup {"no_cast"}
       ELSE /\ wait_time' = 0
            /\ pc' = AfterGenerate(c)
            /\ failures' = fs

\* the failures that make generate_cast raise into its except branch
GenerationFailures ==
    {"recent", "config", "sample", "ideas_raised", "final_raised", "final_empty"}

\* the except branch of generate_cast (lines 282-285): log and
\* return (None, None, None)
GenerationFailed(fs, why) == Return(None, NoneStr, EmptyCastData, fs \cup {why})

\* the exception leaves _run instead of being caught: the loop is over
ExceptHandler_Reraise(what) ==
    /\ wait_time' = wait_time
    /\ pc' = "stopped"
    /\ failures' = failures \cup {what}

\* the except branch of _run (lines 328-331): log, sleep 10, continue
ExceptHandler(what) ==
    /\ wait_time' = FALLBACK
    /\ pc' = "sleep"
    /\ failures' = failures \cup {what}

(* ------------------------------ actions ------------------------------- *)

Init ==
    /\ config \in Configs
    /\ DRYRUN \in BOOLEAN
    /\ interfaces \in {{"farcaster"}, {"farcaster", "telegram"}}
    /\ config_file = YamlFile(config)
    /\ file \in {MissingFile, CorruptFile, JsonFile(<<OldEntry>>)}
    /\ history = load_history(file).history
    /\ pc = "start"
    /\ message = <<>>
    /\ arg_n = 0
    /\ result = <<>>
    /\ added = <<>>
    /\ persisted = <<>>
    /\ clock = 0
    /\ had_quotes = FALSE
    /\ cast = None
    /\ image_calls = 0
    /\ image_url = NoneStr
    /\ image_prompt = NoneStr
    /\ cast_data = EmptyCastData
    /\ cast_hash = NoneStr
    /\ last_cast_hash = NoneStr
    /\ wait_time = 0
    /\ posts = <<>>
    /\ notes = <<>>
    /\ appended = 0
    /\ failures = {}

\* top of the loop and generate_cast up to the first await (lines 293-252):
\* sample the options, pick the idea seed
BeginCycle ==
    /\ pc = "start"
    /\ clock < MaxHistory
    /\ posts' = <<>>
    /\ notes' = <<>>
    /\ appended' = 0
    /\ cast_hash' = NoneStr
    /\ image_prompt' = NoneStr
    /\ IF BeforeIdeasRaises # ""
       THEN /\ GenerationFailed({}, BeforeIdeasRaises)
            /\ message' = <<>>
       ELSE /\ \E bo \in sample2(config.basic_settings),
                  so \in sample2(config.interaction_styles),
                  idea \in choice(config.tweet_ideas) :
                    /\ cast_data' = [cast |-> None,
                                     metadata |-> [EmptyMetadata EXCEPT
                                         !.basic_options = bo,
                                         !.style_options = so,
                                         !.ideas_instruction = idea]]
                    /\ message' = FirstPrompt(bo, so, idea)
            /\ cast' = None
            /\ image_url' = NoneStr
            /\ wait_time' = 0
            /\ failures' = {}
            /\ pc' = "ideas"
    /\ had_quotes' = FALSE
    /\ image_calls' = 0
    /\ UNCHANGED <<env, lib, clock, history, file, last_cast_hash>>

\* the ideas completion returns (lines 252-253) and the final prompt is
\* built up to the second await (lines 256-260)
IdeasCall ==
    /\ pc = "ideas"
    /\ \E r \in LLMOutcomes(IdeasTexts), num_words \in CAST_WORD_LIMITS :
         IF r.raised
         THEN /\ GenerationFailed(failures, "ideas_raised")
              /\ message' = <<>>
         ELSE IF ~Has("tweet_instruction")
         THEN /\ GenerationFailed(failures, "config")
              /\ message' = <<>>
         ELSE /\ cast_data' = [cast_data EXCEPT !.metadata.ideas = r.text]
              /\ message' = SecondPrompt(cast_data.metadata.basic_options,
                                         cast_data.metadata.style_options,
                                         r.text, num_words)
              /\ pc' = "final"
              /\ UNCHANGED <<cast, image_url, wait_time, failures>>
    /\ UNCHANGED <<env, lib, clock, history, file, had_quotes, image_prompt,
                   image_calls, cast_hash, last_cast_hash, posts, notes, appended>>

\* the final completion returns: empty check, cleaning, and the draw that
\* decides on the image step (lines 260-271)
FinalCall ==
    /\ pc = "final"
    /\ \E r \in LLMOutcomes(FinalTexts), draw \in BOOLEAN :
         /\ message' = <<>>
         /\ had_quotes' = (~r.raised /\ Truthy(r.text) /\ ~HasNoQuote(r.text))
         /\ IF r.raised
            THEN GenerationFailed(failures, "final_raised")
            ELSE IF ~Truthy(r.text)
            THEN GenerationFailed(failures, "final_empty")
            ELSE LET cleaned == replace_quotes(r.text)
                     cd == [cast_data EXCEPT !.cast = cleaned]
                 IN  IF draw
                     THEN /\ cast' = cleaned
                          /\ cast_data' = cd
                          /\ pc' = "image_prompt"
                          /\ UNCHANGED <<image_url, wait_time, failures>>
                     ELSE Return(cleaned, NoneStr, cd, failures)
    /\ UNCHANGED <<env, lib, clock, history, file, image_prompt, image_calls,
                   cast_hash, last_cast_hash, posts, notes, appended>>

\* generate_image_prompt returns or raises (lines 273, 277-280)
ImagePrompt ==
    /\ pc = "image_prompt"
    /\ image_calls' = image_calls + 1
    /\ \E raised \in BOOLEAN :
         IF raised
         THEN /\ Return(cast, NoneStr, cast_data, failures \cup {"image"})
              /\ UNCHANGED image_prompt
         ELSE /\ image_prompt' = "p"
              /\ pc' = "image_gen"
              /\ UNCHANGED <<cast, image_url, cast_data, wait_time, failures>>
    /\ UNCHANGED <<env, lib, message, clock, history, file, had_quotes, cast_hash,
                   last_cast_hash, posts, notes, appended>>

\* handle_image_generation returns or raises (lines 274-280)
ImageGeneration ==
    /\ pc = "image_gen"
    /\ image_calls' = image_calls + 1
    /\ \E raised \in BOOLEAN :
         IF raised
         THEN Return(cast, NoneStr, cast_data, failures \cup {"image"})
         ELSE Return(cast, "url",
                     [cast_data EXCEPT !.metadata.image_prompt = image_prompt,
                                       !.metadata.image_url = "url"],
                     failures)
    /\ UNCHANGED <<env, lib, message, clock, history, file, had_quotes,
                   image_prompt, cast_hash, last_cast_hash, posts, notes, appended>>

\* post_cast and what follows it up to the next await (lines 299-314)
PostCast ==
    /\ pc = "post"
    /\ \E resp \in Responses :
         LET h == post_cast(resp) IN
         /\ cast_hash' = h
         /\ posts' = Append(posts, [message |-> cast, image_url |-> image_url,
                                     result |-> h, history |-> history,
                                     file |-> file, appended |-> appended])
         /\ IF TruthyStr(h)
            THEN /\ cast_data' = [cast_data EXCEPT !.metadata.cast_hash = h]
                 /\ last_cast_hash' = h
                 /\ pc' = IF "telegram" \in interfaces THEN "notify" ELSE "add_cast"
                 /\ UNCHANGED failures
            ELSE /\ failures' = failures \cup {"publish"}
                 /\ pc' = "add_cast"
                 /\ UNCHANGED <<cast_data, last_cast_hash>>
    /\ UNCHANGED <<env, lib, message, clock, history, file, had_quotes, cast,
                   image_url, image_prompt, image_calls, wait_time, notes, appended>>

\* the message _run hands to send_to_interface (lines 306-312)
Notification(h) ==
    [type |-> "message", content |-> <<"Just posted a cast: ", h>>,
     image_url |-> NoneStr, source |-> "farcaster", chat_id |-> NoneStr]

\* send_to_interface('telegram', ...) returns or raises (lines 304-312)
Notify ==
    /\ pc = "notify"
    /\ \E raised \in BOOLEAN :
         IF raised
         THEN /\ ExceptHandler("notification")
              /\ UNCHANGED notes
         ELSE /\ notes' = Append(notes, Notification(cast_hash))
              /\ pc' = "add_cast"
              /\ UNCHANGED <<wait_time, failures>>
    /\ UNCHANGED <<env, lib, message, clock, history, file, had_quotes, cast,
                   image_url, image_prompt, image_calls, cast_data, cast_hash,
                   last_cast_hash, posts, appended>>

\* history_manager.add_cast(cast_data) and the choice of the wait
\* (lines 318-319, 156-170)
AddCast ==
    /\ pc = "add_cast"
    /\ clock' = clock + 1
    /\ history' = append(history, add_cast(clock', cast_data, NoMetadata))
    /\ appended' = appended + 1
    /\ \E out \in SaveOutcomes(history') :
         /\ file' = out.file
         /\ IF out.ok
            THEN /\ \E w \in random_interval : wait_time' = w
                 /\ pc' = "sleep"
                 /\ UNCHANGED failures
            ELSE ExceptHandler("history_write")
    /\ UNCHANGED <<env, lib, message, had_quotes, cast, image_url, image_prompt,
                   image_calls, cast_data, cast_hash, last_cast_hash, posts, notes>>

\* asyncio.sleep returns and the loop iterates (lines 326, 330-331, 293):
\* the locals of the finished iteration are dead
Sleep ==
    /\ pc = "sleep"
    /\ pc' = "start"
    /\ had_quotes' = FALSE
    /\ image_calls' = 0
    /\ cast' = None
    /\ image_url' = NoneStr
    /\ image_prompt' = NoneStr
    /\ cast_data' = EmptyCastData
    /\ cast_hash' = NoneStr
    /\ wait_time' = 0
    /\ posts' = <<>>
    /\ notes' = <<>>
    /\ appended' = 0
    /\ failures' = {}
    /\ UNCHANGED <<env, lib, message, clock, history, file,
                   last_cast_hash>>

Next ==
    \/ BeginCycle
    \/ IdeasCall
    \/ FinalCall
    \/ ImagePrompt
    \/ ImageGeneration
    \/ PostCast
    \/ Notify
    \/ AddCast
    \/ Sleep

Spec == Init /\ [][Next]_vars

\* every awaited call returns or raises in the end, and the event loop
\* resumes the single coroutine: the next step of _run is always taken
FairSpec == Spec /\ WF_vars(Next)

(* ---------------- the sampling step of generate_cast ------------------ *)

\* the persona traits a configuration can list: every list of one to
\* MaxTraits traits, repeated traits included
TraitLists == UNION {[1..k -> {"x", "y", "z"}] : k \in 1..MaxTraits}

\* the interaction styles a configuration can list
StyleLists == {<<"s1">>, <<"s1", "s2">>, <<"s1", "s1">>, <<"s1", "s2", "s3">>}

\* a loop about to start its first cycle, for every such configuration
SampleInit ==
    /\ \E b \in TraitLists, st \in StyleLists :
          config = [ValidConfig EXCEPT !.basic_settings = b,
                                       !.interaction_styles = st]
    /\ DRYRUN = FALSE
    /\ interfaces = {"farcaster"}
    /\ config_file = YamlFile(config)
    /\ file = MissingFile
    /\ history = <<>>
    /\ pc = "start"
    /\ message = <<>>
    /\ clock = 0
    /\ had_quotes = FALSE
    /\ cast = None
    /\ image_calls = 0
    /\ image_url = NoneStr
    /\ image_prompt = NoneStr
    /\ cast_data = EmptyCastData
    /\ cast_hash = NoneStr
    /\ last_cast_hash = NoneStr
    /\ wait_time = 0
    /\ posts = <<>>
    /\ notes = <<>>
    /\ appended = 0
    /\ failures = {}
    /\ arg_n = 0
    /\ result = <<>>
    /\ added = <<>>
    /\ persisted = <<>>

\* generate_cast up to its first await, and no further
SampleSpec == SampleInit /\ [][BeginCycle]_vars

(* ------------------- the program from its start ---------------------- *)

\* what config/prompts.yaml can hold when the program starts: nothing
\* (no file), text that is not YAML, an empty document, a complete
\* document, a document without one of its sections
ConfigFiles ==
    {MissingConfigFile, UnparsableConfigFile, YamlFile(NoConfig),
     YamlFile(ValidConfig), YamlFile(Without(ValidConfig, "system")),
     YamlFile(Without(ValidConfig, "tweet_ideas"))}

\* what cast_history.json can hold when the program starts
StartFiles == {MissingFile, UndecodableFile, JsonFile(<<OtherObject>>)}

\* main() before FarcasterAgent() (lines 337-338); the flag and the
\* registered interfaces are those of the module and of the parent agent
StartInit ==
    /\ config = NoConfig
    /\ DRYRUN \in BOOLEAN
    /\ interfaces = {"farcaster", "telegram"}
    /\ config_file \in ConfigFiles
    /\ file \in StartFiles
    /\ history = <<>>
    /\ pc = "main"
    /\ message = <<>>
    /\ clock = 0
    /\ had_quotes = FALSE
    /\ cast = None
    /\ image_calls = 0
    /\ image_url = NoneStr
    /\ image_prompt = NoneStr
    /\ cast_data = EmptyCastData
    /\ cast_hash = NoneStr
    /\ last_cast_hash = NoneStr
    /\ wait_time = 0
    /\ posts = <<>>
    /\ notes = <<>>
    /\ appended = 0
    /\ failures = {}
    /\ arg_n = 0
    /\ result = <<>>
    /\ added = <<>>
    /\ persisted = <<>>

\* self.prompt_config = PromptConfig() (lines 184, 102-115): an exception
\* of _load_config leaves the constructors and main, and the program ends
PromptConfigInit ==
    /\ pc = "main"
    /\ LET r == load_config(config_file) IN
         /\ config' = r.config
         /\ pc' = IF r.raised THEN "exited" ELSE "history"
    /\ UNCHANGED <<DRYRUN, interfaces, config_file, lib, message, clock, history,
                   file, had_quotes, cast, image_url, image_prompt, cast_data,
                   cast_hash, last_cast_hash, wait_time, image_calls, posts,
                   notes, appended, failures>>

\* self.history_manager = CastHistoryManager() (lines 185, 142-154), then
\* agent.run() enters the loop (lines 339, 287-293)
CastHistoryManagerInit ==
    /\ pc = "history"
    /\ LET r == load_history(file) IN
         /\ history' = r.history
         /\ pc' = IF r.raised THEN "exited" ELSE "start"
    /\ UNCHANGED <<env, lib, message, clock, file, had_quotes, cast, image_url,
                   image_prompt, cast_data, cast_hash, last_cast_hash, wait_time,
                   image_calls, posts, notes, appended, failures>>

StartNext ==
    \/ PromptConfigInit
    \/ CastHistoryManagerInit
    \/ Next

StartSpec == StartInit /\ [][StartNext]_vars

(* ------------------- CastHistoryManager on its own -------------------- *)

\* the variables of the posting loop, which a client of the store alone
\* leaves as they are
loop == <<config, DRYRUN, interfaces, config_file, message, had_quotes, cast,
          image_url, image_prompt, cast_data, cast_hash, last_cast_hash,
          wait_time, image_calls, posts, notes, appended, failures>>

\* what the file can hold when the program starts
StoreFiles ==
    {MissingFile, CorruptFile, UndecodableFile, JsonFile(<<>>),
     JsonFile(<<OtherObject>>), JsonFile(<<OldEntry>>)}

\* the working records a client hands to add_cast
StoreCastData ==
    {[cast |-> t, metadata |-> EmptyMetadata] : t \in {<<"a">>, <<"a", "a">>}}

\* the metadata a client hands to add_cast
Metadatas == {NoMetadata, [tag |-> "t"]}

\* the outcome of the last call of a method of the store, and the
\* history as it was when the call was made
Outcome(op, raised, casts, before) ==
    [op |-> op, raised |-> raised, casts |-> casts, before |-> before]

\* the entries of the last complete file
Persisted(known, entries) == [known |-> known, entries |-> entries]

StoreInit ==
    /\ config = ValidConfig
    /\ DRYRUN = FALSE
    /\ interfaces = {"farcaster"}
    /\ config_file = YamlFile(config)
    /\ file \in StoreFiles
    /\ history = <<>>
    /\ pc = "down"
    /\ message = <<>>
    /\ clock = 0
    /\ had_quotes = FALSE
    /\ cast = None
    /\ image_calls = 0
    /\ image_url = NoneStr
    /\ image_prompt = NoneStr
    /\ cast_data = EmptyCastData
    /\ cast_hash = NoneStr
    /\ last_cast_hash = NoneStr
    /\ wait_time = 0
    /\ posts = <<>>
    /\ notes = <<>>
    /\ appended = 0
    /\ failures = {}
    /\ arg_n = 0
    /\ result = Outcome("", FALSE, <<>>, <<>>)
    /\ added = <<>>
    /\ persisted = IF file.state = "json"
                   THEN Persisted(TRUE, load_history(file).history)
                   ELSE Persisted(FALSE, <<>>)

\* CastHistoryManager.__init__ (lines 142-144): the history is loaded; an
\* exception of load_history leaves the constructor and ends the program
Construct ==
    /\ pc = "down"
    /\ LET r == load_history(file) IN
         /\ result' = Outcome("load_history", r.raised, <<>>, history)
         /\ history' = r.history
         /\ pc' = IF r.raised THEN "failed" ELSE "idle"
    /\ added' = <<>>
    /\ UNCHANGED <<loop, file, clock, arg_n, persisted>>

\* add_cast up to the open(..., 'w') of save_history (lines 156-169): the
\* entry is built and appended in memory; open raises and leaves the file
\* as it is, or truncates it
AddCastOpen ==
    /\ pc = "idle"
    /\ clock < MaxStored
    /\ clock' = clock + 1
    /\ \E cd \in StoreCastData, md \in Metadatas :
         /\ history' = append(history, add_cast(clock', cd, md))
         /\ added' = Append(added, update(NewEntry(clock', cd), md))
    /\ \E opened \in BOOLEAN :
         IF opened
         THEN /\ file' = CorruptFile
              /\ pc' = "writing"
              /\ result' = Outcome("", FALSE, <<>>, history)
         ELSE /\ result' = Outcome("add_cast", TRUE, <<>>, history)
              /\ pc' = "idle"
              /\ UNCHANGED file
    /\ UNCHANGED <<loop, arg_n, persisted>>

\* json.dump into the open file (line 170): it writes the whole array, or
\* raises on the way and leaves a part of it
AddCastWrite ==
    /\ pc = "writing"
    /\ \E out \in {"written", "cut", "cut_in_character"} :
         /\ file' = IF out = "written" THEN JsonFile(history)
                     ELSE IF out = "cut" THEN CorruptFile
                     ELSE UndecodableFile
         /\ result' = Outcome("add_cast", out # "written", <<>>, result.before)
         /\ persisted' = IF out = "written"
                          THEN Persisted(TRUE, history)
                          ELSE persisted
    /\ pc' = "idle"
    /\ UNCHANGED <<loop, history, clock, arg_n, added>>

\* a client calls get_recent_casts(n)
GetRecentCasts ==
    /\ pc = "idle"
    /\ \E n \in 0..MaxN :
         /\ arg_n' = n
         /\ LET r == get_recent_casts(history, n) IN
              result' = Outcome("get_recent_casts", r.raised, r.casts, history)
    /\ UNCHANGED <<loop, pc, history, file, clock, added, persisted>>

\* the process is terminated: the memory is gone, the file stays as the
\* last write left it (during json.dump: cut short, possibly inside a
\* character)
Terminate ==
    /\ pc \in {"idle", "writing"}
    /\ pc' = "down"
    /\ file' \in IF pc = "writing" THEN {CorruptFile, UndecodableFile} ELSE {file}
    /\ history' = <<>>
    /\ added' = <<>>
    /\ result' = Outcome("", FALSE, <<>>, <<>>)
    /\ arg_n' = 0
    /\ UNCHANGED <<loop, clock, persisted>>

StoreNext ==
    \/ Construct
    \/ AddCastOpen
    \/ AddCastWrite
    \/ GetRecentCasts
    \/ Terminate

StoreSpec == StoreInit /\ [][StoreNext]_vars

(* ------------------------------ claims -------------------------------- *)

LastEntry == history[Len(history)]

\* the failures after which _run itself selects the fallback: a failed
\* generation, or an exception that reaches the handler of _run
FallbackFailures ==
    GenerationFailures \cup {"no_cast", "notification", "history_write"}

\* C1: in a non-dry-run cycle with a non-empty text whose post_cast
\* returned None, the wait chosen before the next cycle is the 10-second
\* fallback and not a value of the interval 3600..7200.
C1_PublishFailureFallback ==
    (pc = "sleep" /\ ~DRYRUN /\ Truthy(cast) /\ Len(posts) = 1
        /\ posts[1].result = NoneStr)
    => (wait_time = FALLBACK /\ wait_time \notin IntervalLo..IntervalHi)

C3_NotificationBestEffort ==
    (pc = "sleep" /\ "notification" \in failures)
    => (appended = 1 /\ wait_time \in IntervalLo..IntervalHi)

\* C4: a cycle appends exactly one entry when generate_cast returned a
\* non-empty text, whatever happened to the publish, and none otherwise.
C4_OneEntryPerGeneration ==
    pc = "sleep" => appended = (IF Truthy(cast) THEN 1 ELSE 0)

\* C5: when post_cast returned an identifier, the cycle ends with its
\* entry in the history, and the entry's metadata holds that identifier.
C5_PublishedPostRecorded ==
    (pc = "sleep" /\ Len(posts) = 1 /\ TruthyStr(posts[1].result))
    => (appended = 1 /\ LastEntry.cast.metadata.cast_hash = posts[1].result)

C7_GenerationFailureAborts ==
    (failures \cap GenerationFailures # {})
    => /\ pc = "sleep"
       /\ wait_time = FALLBACK
       /\ cast = None
       /\ image_calls = 0
       /\ appended = 0
       /\ posts = <<>>
       /\ notes = <<>>

\* C7: a cycle whose final completion was empty
C7_Witness ==
    pc = "sleep" /\ "final_empty" \in failures /\ wait_time = FALLBACK

\* C8: a cycle whose image step raised still has its text returned without
\* an image, appends the entry and (outside dry-run) attempts the publish
\* without an image.
C8_ImageFailureProceeds ==
    (pc = "sleep" /\ "image" \in failures /\ Truthy(cast))
    => /\ image_url = NoneStr
       /\ cast = cast_data.cast
       /\ ~DRYRUN => (Len(posts) = 1 /\ posts[1].image_url = NoneStr)
       /\ appended = 1
       /\ LastEntry.cast.metadata.image_url = NoneStr

\* C9: post_cast is called once per cycle when the generation gave a text
\* and dry-run is off, with the cleaned text that the working record and
\* the cycle's history entry hold; it is not called in dry-run (the entry
\* is appended all the same) nor when the generation gave no text.
C9_PostCastOncePerCycle ==
    /\ Len(posts) <= 1
    /\ \A i \in DOMAIN posts :
          /\ ~DRYRUN
          /\ Truthy(posts[i].message)
          /\ posts[i].message = cast_data.cast
          /\ appended = 1 => LastEntry.cast.cast = posts[i].message
    /\ pc = "sleep" =>
          /\ (Truthy(cast) /\ ~DRYRUN) => Len(posts) = 1
          /\ (Truthy(cast) /\ DRYRUN) => (posts = <<>> /\ appended = 1)
          /\ ~Truthy(cast) => (posts = <<>> /\ appended = 0)

\* C9: a non-dry-run cycle that published its two-character text once
C9_Witness ==
    /\ pc = "sleep"
    /\ ~DRYRUN
    /\ Len(posts) = 1
    /\ appended = 1
    /\ LastEntry.cast.cast = posts[1].message
    /\ LastEntry.cast.cast = <<"a", "a">>

\* C10: no text handed to post_cast and no text stored as cast.cast, in
\* memory or in the file, contains the quote character.
C10_NoQuoteStoredOrPublished ==
    /\ \A i \in DOMAIN posts : HasNoQuote(posts[i].message)
    /\ \A k \in DOMAIN history : HasNoQuote(history[k].cast.cast)
    /\ \A k \in DOMAIN load_history(file).history :
          HasNoQuote(load_history(file).history[k].cast.cast)

\* C10: a completion with a quote character, stored and published as
\* the one-character text without it
C10_Witness ==
    /\ pc = "sleep"
    /\ had_quotes
    /\ Len(posts) = 1
    /\ appended = 1
    /\ LastEntry.cast.cast = <<"a">>
    /\ file = JsonFile(history)

\* C16: in every step of the loop the history is left as it is or grows by
\* one entry at its end: the entries it holds stay where they are and as
\* they are, whatever happens to the working record.
C16_HistoryAppendOnly ==
    [][\/ history' = history
       \/ /\ Len(history') = Len(history) + 1
          /\ SubSeq(history', 1, Len(history)) = history]_vars

\* C16: a cycle added its entry behind the entry of an earlier run
C16_Witness ==
    /\ pc = "sleep"
    /\ appended = 1
    /\ Len(history) = 2
    /\ history[1] = OldEntry
    /\ history[2].cast = cast_data

\* C18: the prompt of the first (ideas) call holds the chosen idea seed
\* and, when the history has texts, the context made of the recent texts;
\* the prompt of the second (final) call holds the ideas the first call
\* returned.
C18_PromptsCarryContext ==
    /\ (pc = "ideas")
       => /\ \E i \in DOMAIN message :
                /\ message[i].part = "idea"
                /\ message[i].args = <<cast_data.metadata.ideas_instruction>>
          /\ (past_casts.casts # <<>>)
                => \E j \in DOMAIN message :
                      /\ message[j].part = "context"
                      /\ message[j].texts = past_casts.casts
    /\ (pc = "final")
       => \E i \in DOMAIN message :
             /\ message[i].part = "instruction"
             /\ message[i].texts = <<cast_data.metadata.ideas>>

\* C19: a notification is attempted or sent only in a cycle that is not a
\* dry run, whose generation gave a text and whose post_cast returned an
\* identifier; there is at most one, and it carries that identifier.
C19_NotifyOnlyAfterPublish ==
    /\ (pc = "notify" \/ notes # <<>>)
       => /\ ~DRYRUN
          /\ Truthy(cast)
          /\ "telegram" \in interfaces
          /\ Len(posts) = 1
          /\ posts[1].result \in Hashes
          /\ cast_hash = posts[1].result
    /\ Len(notes) <= 1
    /\ \A i \in DOMAIN notes :
          /\ notes[i].content = <<"Just posted a cast: ", posts[1].result>>
          /\ notes[i].source = "farcaster"
    /\ (pc = "sleep" /\ (DRYRUN \/ "publish" \in failures \/ ~Truthy(cast)))
       => notes = <<>>

\* C19: a notification with the identifier of the cast just published
\* went out
C19_Witness ==
    /\ pc = "sleep"
    /\ Len(posts) = 1
    /\ posts[1].result = "h1"
    /\ Len(notes) = 1
    /\ notes[1].content = <<"Just posted a cast: ", "h1">>

\* C20: no text handed to post_cast and no text stored in the history or
\* in the file is empty; a cycle whose completion gave the empty text
\* after cleaning publishes nothing, appends nothing and waits the
\* 10-second fallback, like a failed generation.
C20_NoEmptyTextStoredOrPublished ==
    /\ \A i \in DOMAIN posts : posts[i].message # <<>> /\ posts[i].message # None
    /\ \A k \in DOMAIN history :
          history[k].cast.cast # <<>> /\ history[k].cast.cast # None
    /\ \A k \in DOMAIN load_history(file).history :
          load_history(file).history[k].cast.cast # <<>>
    /\ (pc \in {"post", "notify", "add_cast"}) => cast # <<>>
    /\ (pc = "sleep" /\ cast = <<>>)
       => /\ posts = <<>>
          /\ notes = <<>>
          /\ appended = 0
          /\ wait_time = FALLBACK
          /\ "no_cast" \in failures

\* C20: a completion made of quote characters only, empty once cleaned
C20_Witness ==
    /\ pc = "sleep"
    /\ had_quotes
    /\ cast = <<>>
    /\ cast_data.cast = <<>>
    /\ wait_time = FALLBACK
    /\ appended = 0

\* the list holds no element twice
NoRepeat(list) == \A i, j \in DOMAIN list : list[i] = list[j] => i = j

\* the pair is made of the elements at two different positions of the list
FromDistinctPositions(pair, list) ==
    /\ Len(pair) = 2
    /\ \E i, j \in DOMAIN list : i # j /\ list[i] = pair[1] /\ list[j] = pair[2]

\* C17: the two persona traits of a cycle are taken at two different
\* positions of the configured list, and so are the two styles; for a valid
\* configuration, whose lists hold no element twice, the two traits differ
\* and the two styles differ.
C17_SampledPairsDistinct ==
    (pc = "ideas")
    => LET bo == cast_data.metadata.basic_options
           so == cast_data.metadata.style_options
       IN  /\ FromDistinctPositions(bo, config.basic_settings)
           /\ FromDistinctPositions(so, config.interaction_styles)
           /\ NoRepeat(config.basic_settings) => bo[1] # bo[2]
           /\ NoRepeat(config.interaction_styles) => so[1] # so[2]

\* C17: the third and the first of three traits, the second and the
\* third of three styles
C17_Witness ==
    /\ pc = "ideas"
    /\ config.basic_settings = <<"x", "y", "z">>
    /\ cast_data.metadata.basic_options = <<"z", "x">>
    /\ cast_data.metadata.style_options = <<"s2", "s3">>

(* ---------------------- claims about the store ------------------------ *)

Min(a, b) == IF a < b THEN a ELSE b

IsPrefix(p, q) == Len(p) <= Len(q) /\ SubSeq(q, 1, Len(p)) = p

\* every element of the history is an entry with its text
AllEntries(h) ==
    \A i \in DOMAIN h : "cast" \in DOMAIN h[i] /\ "timestamp" \in DOMAIN h[i]

\* the file holds a well-formed array of history entries
WellFormed(f) == f.state = "json" /\ AllEntries(load_history(f).history)

\* C11: on a history of L entries, get_recent_casts(n) with n >= 0 returns
\* exactly min(n, L) texts, the texts of the last min(n, L) entries in
\* their order, oldest first, and the history is as it was before.
C11_RecentReturnsLastN ==
    (pc = "idle" /\ result.op = "get_recent_casts" /\ AllEntries(history))
    => LET L == Len(history)
           k == Min(arg_n, L)
       IN  /\ ~result.raised
           /\ Len(result.casts) = k
           /\ \A i \in 1..k : result.casts[i] = history[L - k + i].cast.cast
           /\ history = result.before

\* C12: after a completed add_cast the file holds exactly the in-memory
\* history, and reloading it gives back, at the end and in order, the
\* entries that were appended, equal field for field: all K of them and
\* nothing else when the history was empty before.
C12_ReloadYieldsAppended ==
    (pc = "idle" /\ result.op = "add_cast" /\ ~result.raised)
    => LET reloaded == load_history(file)
           L == Len(history)
           K == Len(added)
       IN  /\ file = JsonFile(history)
           /\ ~reloaded.raised
           /\ reloaded.history = history
           /\ K <= Len(reloaded.history)
           /\ SubSeq(reloaded.history, L - K + 1, L) = added
           /\ (L = K) => (reloaded.history = added /\ Len(reloaded.history) = K)

\* C12: two entries appended to an empty history, the second with
\* metadata, written and read back
C12_Witness ==
    /\ pc = "idle"
    /\ result.op = "add_cast"
    /\ ~result.raised
    /\ Len(added) = 2
    /\ "tag" \in DOMAIN added[2]
    /\ load_history(file).history = added

\* C13: load_history does not raise, and it returns the empty history
\* whenever the file is missing or is not a well-formed array of entries.
C13_LoadNeverRaises ==
    (result.op = "load_history")
    => /\ ~result.raised
       /\ pc = "idle"
       /\ ~WellFormed(file) => history = <<>>

\* C14: once the file has held a complete array, then in every state in
\* which the program is up (the states between the steps of save_history
\* included) the file holds a well-formed array that still starts with the
\* entries persisted last.
C14_FileStaysValid ==
    (pc # "down" /\ persisted.known)
    => /\ file.state = "json"
       /\ IsPrefix(persisted.entries, load_history(file).history)

(* --------------------- claims about the start ------------------------- *)

\* the configuration file holds a document with every required section
CompleteConfigFile ==
    config_file.state = "yaml" /\ ConfigKeys \subseteq DOMAIN config_file.document

\* C15: when the configuration file is missing, unparsable or lacks a
\* required section, loading it fails and the program ends at startup; so
\* the loop is never running with a configuration that lacks a section.
C15_ConfigValidatedAtStartup ==
    /\ (pc # "main" /\ ~CompleteConfigFile) => pc = "exited"
    /\ (pc \notin {"main", "history", "exited"}) => ConfigKeys \subseteq DOMAIN config

====
